---- MODULE Spec2Model ----
(***************************************************************************)
(* Model of main.py of academic-bot-api: the five source adapters, the     *)
(* aggregator search_all_sources with its Redis cache, and the /search     *)
(* endpoint that calls it.                                                 *)
(*                                                                         *)
(* A Python str is a sequence of code points (naturals); a list is a       *)
(* sequence; a dict is a sequence of entries in insertion order.  A        *)
(* normalized record is identified by the position (1, 2, ...) of the      *)
(* upstream item it was built from.                                        *)
(***************************************************************************)
EXTENDS Integers, Sequences, FiniteSets, TLC

(* ------------------------------ bounds -------------------------------- *)
MaxCalls == 2
MaxUpstream == 2    \* most items an upstream source holds for a query
MaxFaults == 2
MaxTicks == 1       \* times the clock is observed to advance

(* ------------------------------ strings ------------------------------- *)
COLON == 58         \* ord(':')
COMMA == 44         \* ord(',')

scholar == <<115, 99, 104, 111, 108, 97, 114>>
pubmed == <<112, 117, 98, 109, 101, 100>>
arxiv == <<97, 114, 120, 105, 118>>
semantic == <<115, 101, 109, 97, 110, 116, 105, 99>>
openalex == <<111, 112, 101, 110, 97, 108, 101, 120>>

\* A default list that leaves a source out.
DefaultSources_WithoutOpenalex == <<scholar, pubmed, arxiv, semantic>>

\* The default of search_all_sources when sources is None.
DefaultSources == <<scholar, pubmed, arxiv, semantic, openalex>>

KnownNames == {scholar, pubmed, arxiv, semantic, openalex}

\* The order in which search_all_sources handles the adapters.
DispatchOrder == <<semantic, openalex, scholar, pubmed, arxiv>>

NumAdapters == Len(DispatchOrder)

\* Python's str "<": lexicographic on code points, a proper prefix first.
RECURSIVE StrLess(_, _)
StrLess(s, t) ==
    IF t = <<>> THEN FALSE
    ELSE IF s = <<>> THEN TRUE
    ELSE IF Head(s) # Head(t) THEN Head(s) < Head(t)
    ELSE StrLess(Tail(s), Tail(t))

\* One insertion of sorted(): x goes before the first element greater than it
\* (stable).
RECURSIVE Insert(_, _)
Insert(x, l) ==
    IF l = <<>> THEN <<x>>
    ELSE IF StrLess(x, Head(l)) THEN <<x>> \o l
    ELSE <<Head(l)>> \o Insert(x, Tail(l))

\* sorted(l) of a list of str.
RECURSIVE sorted(_)
sorted(l) ==
    IF l = <<>> THEN <<>>
    ELSE Insert(l[Len(l)], sorted(SubSeq(l, 1, Len(l) - 1)))

\* sep.join(l)
RECURSIVE join(_, _)
join(sep, l) ==
    IF l = <<>> THEN <<>>
    ELSE IF Len(l) = 1 THEN l[1]
    ELSE l[1] \o <<sep>> \o join(sep, Tail(l))

\* x in l, for a list l.
In(x, l) == \E i \in 1..Len(l) : l[i] = x

\* hashlib.md5(s.encode()).hexdigest(), taken to be injective: the digest is
\* identified by the string digested.
md5_hexdigest(s) == [md5 |-> s]

\* A key string built from the list as given, without sorted().
KeyString_Unsorted(query, sources) == query \o <<COLON>> \o join(COMMA, sources)

\* The string search_all_sources hashes.
KeyString(query, sources) == query \o <<COLON>> \o join(COMMA, sorted(sources))

cache_key_of(query, sources) == md5_hexdigest(KeyString(query, sources))

(* ------------------------------ dicts ---------------------------------- *)
\* d[k] = v on a dict kept as a sequence of entries: an existing key keeps its
\* place, a new key goes last.
DictSet(d, k, v) ==
    IF \E i \in 1..Len(d) : d[i].name = k
    THEN [i \in 1..Len(d) |-> IF d[i].name = k THEN [name |-> k, records |-> v] ELSE d[i]]
    ELSE Append(d, [name |-> k, records |-> v])

DictKeys(d) == {d[i].name : i \in 1..Len(d)}

\* d[k], for a key k of d.
DictGet(d, k) == (CHOOSE i \in 1..Len(d) : d[i].name = k) \* index of the entry

Slot(d, k) == d[DictGet(d, k)].records

\* The envelope search_all_sources starts from.
NewResults(query, t) ==
    [query |-> query, timestamp |-> t, sources |-> <<>>, total_results |-> 0]

NoResults == NewResults(<<>>, 0)

(* ------------------------------ JSON ----------------------------------- *)
\* json.dumps / json.loads of an envelope.  The text is a flat sequence of
\* naturals: every string and list is written as its length followed by its
\* elements, in the order of the dict's entries.
RECURSIVE DumpSources(_)
DumpSources(d) ==
    IF d = <<>> THEN <<>>
    ELSE <<Len(Head(d).name)>> \o Head(d).name
         \o <<Len(Head(d).records)>> \o Head(d).records
         \o DumpSources(Tail(d))

json_dumps(env) ==
    <<Len(env.query)>> \o env.query \o <<env.timestamp>>
    \o <<Len(env.sources)>> \o DumpSources(env.sources)
    \o <<env.total_results>>

\* Reads a length-prefixed run at position p of text s: [ok, val, next].
ReadRun(s, p) ==
    IF p > Len(s) THEN [ok |-> FALSE, val |-> <<>>, next |-> p]
    ELSE IF p + s[p] > Len(s) THEN [ok |-> FALSE, val |-> <<>>, next |-> p]
    ELSE [ok |-> TRUE, val |-> SubSeq(s, p + 1, p + s[p]), next |-> p + s[p] + 1]

RECURSIVE LoadSources(_, _, _, _)
LoadSources(s, p, k, acc) ==
    IF k = 0 THEN [ok |-> TRUE, val |-> acc, next |-> p]
    ELSE LET nm == ReadRun(s, p)
             rs == ReadRun(s, nm.next)
         IN IF ~nm.ok \/ ~rs.ok THEN [ok |-> FALSE, val |-> <<>>, next |-> p]
            ELSE LoadSources(s, rs.next, k - 1,
                             Append(acc, [name |-> nm.val, records |-> rs.val]))

\* json.loads(s): [ok |-> FALSE, ...] stands for the exception it raises on a
\* text that is no envelope.
json_loads(s) ==
    LET q == ReadRun(s, 1)
        tp == q.next
        np == tp + 1
        srcs == IF q.ok /\ np <= Len(s)
                THEN LoadSources(s, np + 1, s[np], <<>>)
                ELSE [ok |-> FALSE, val |-> <<>>, next |-> np]
    IN IF q.ok /\ srcs.ok /\ srcs.next = Len(s)
       THEN [ok |-> TRUE,
             val |-> [query |-> q.val, timestamp |-> s[tp],
                      sources |-> srcs.val, total_results |-> s[srcs.next]]]
       ELSE [ok |-> FALSE, val |-> NoResults]

(* ------------------------------ upstream ------------------------------- *)
\* Position of an adapter in DispatchOrder.
AdapterIndex(name) == CHOOSE i \in 1..NumAdapters : DispatchOrder[i] = name

\* Number of items the upstream source of adapter a holds for a query.
Corpus(a, query) == (a + Len(query)) % (MaxUpstream + 1)

Min(x, y) == IF x <= y THEN x ELSE y

\* Items an upstream that honours the requested cap sends back.
Served(a, query, cap) == Min(Corpus(a, query), cap)

\* What can happen to one adapter call: no fault ("ok"), a fault caught by the
\* adapter's try/except while handling item `at` (at = 0: the request itself
\* failed: transport error, timeout, unparsable body), or an exception raised
\* outside the adapter's try/except ("escape").
Outcomes(a, query, cap) ==
    {[kind |-> "ok", at |-> 0], [kind |-> "escape", at |-> 0]}
    \cup {[kind |-> "error", at |-> k] : k \in 0..Served(a, query, cap)}

IsFault(o) == o.kind # "ok"

(* ------------------------------ adapters ------------------------------- *)
Returned(results) == [raised |-> FALSE, value |-> results]

Raised == [raised |-> TRUE, value |-> <<>>]

\* for i, pub in enumerate(search_query): of search_google_scholar; i counts
\* from 0, the items are 1..n.
RECURSIVE ScholarLoop(_, _, _, _, _)
ScholarLoop(i, n, num_results, o, results) ==
    IF i >= n THEN results
    ELSE IF i >= num_results THEN results
    ELSE IF o.kind = "error" /\ o.at = i + 1 THEN results
    ELSE ScholarLoop(i + 1, n, num_results, o, Append(results, i + 1))

search_google_scholar(query, num_results, o) ==
    IF o.kind = "escape" THEN Raised
    ELSE IF o.kind = "error" /\ o.at = 0 THEN Returned(<<>>)
    ELSE Returned(ScholarLoop(0, Corpus(AdapterIndex(scholar), query), num_results, o, <<>>))

\* for article in root.findall('.//PubmedArticle'): an article that raises is
\* skipped by the inner try/except.
RECURSIVE ArticleLoop(_, _, _, _)
ArticleLoop(k, n, o, results) ==
    IF k > n THEN results
    ELSE IF o.kind = "error" /\ o.at = k THEN ArticleLoop(k + 1, n, o, results)
    ELSE ArticleLoop(k + 1, n, o, Append(results, k))

search_pubmed(query, num_results, o) ==
    LET ids == Served(AdapterIndex(pubmed), query, num_results)
    IN IF o.kind = "escape" THEN Raised
       ELSE IF o.kind = "error" /\ o.at = 0 THEN Returned(<<>>)
       ELSE IF ids = 0 THEN Returned(<<>>)
       ELSE Returned(ArticleLoop(1, ids, o, <<>>))

\* The loop with a try/except of its own around each item, as in search_pubmed:
\* the failing item is skipped and the loop goes on.
EntryLoop_SkipsFailing(k, n, o, results) == ArticleLoop(k, n, o, results)

\* The loop over the items of one response, inside the adapter's only
\* try/except: a fault ends the loop and leaves results as they are.
RECURSIVE EntryLoop(_, _, _, _)
EntryLoop(k, n, o, results) ==
    IF k > n THEN results
    ELSE IF o.kind = "error" /\ o.at = k THEN results
    ELSE EntryLoop(k + 1, n, o, Append(results, k))

search_arxiv(query, num_results, o) ==
    IF o.kind = "escape" THEN Raised
    ELSE IF o.kind = "error" /\ o.at = 0 THEN Returned(<<>>)
    ELSE Returned(EntryLoop(1, Served(AdapterIndex(arxiv), query, num_results), o, <<>>))

search_semantic_scholar_async(query, num_results, o) ==
    IF o.kind = "escape" THEN Raised
    ELSE IF o.kind = "error" /\ o.at = 0 THEN Returned(<<>>)
    ELSE Returned(EntryLoop(1, Served(AdapterIndex(semantic), query, num_results), o, <<>>))

search_openalex_async(query, num_results, o) ==
    IF o.kind = "escape" THEN Raised
    ELSE IF o.kind = "error" /\ o.at = 0 THEN Returned(<<>>)
    ELSE Returned(EntryLoop(1, Served(AdapterIndex(openalex), query, num_results), o, <<>>))

\* The default of every adapter's num_results parameter.
DEFAULT_NUM_RESULTS == 10

\* The limit search_all_sources hands to an adapter: it calls every adapter
\* with the query alone, so the adapter's default applies.
LimitPassed(num_results) == DEFAULT_NUM_RESULTS

\* The adapter call search_all_sources makes for position a of DispatchOrder.
CallAdapter(a, query, limit, o) ==
    IF DispatchOrder[a] = semantic THEN search_semantic_scholar_async(query, limit, o)
    ELSE IF DispatchOrder[a] = openalex THEN search_openalex_async(query, limit, o)
    ELSE IF DispatchOrder[a] = scholar THEN search_google_scholar(query, limit, o)
    ELSE IF DispatchOrder[a] = pubmed THEN search_pubmed(query, limit, o)
    ELSE search_arxiv(query, limit, o)

(* ------------------------------ requests ------------------------------ *)
QueryA == <<97>>                 \* "a"
QueryAB == <<97, COLON, 98>>     \* "a:b"

Request(query, sources_none, sources, num_results) ==
    [query |-> query, sources_none |-> sources_none, sources |-> sources,
     num_results |-> num_results]

\* The bodies POST /search is called with (SearchRequest): no source list, an
\* empty one, one and two known names in both orders, a repeated name, a name
\* that is not a source, and names that contain ',' and ':'.
Requests ==
    { Request(QueryAB, TRUE, <<>>, DEFAULT_NUM_RESULTS),
      Request(QueryA, FALSE, <<>>, DEFAULT_NUM_RESULTS),
      Request(QueryAB, FALSE, <<arxiv>>, 1),
      Request(QueryAB, FALSE, <<arxiv, arxiv>>, DEFAULT_NUM_RESULTS),
      Request(QueryA, FALSE, <<pubmed, arxiv>>, DEFAULT_NUM_RESULTS),
      Request(QueryA, FALSE, <<arxiv, pubmed>>, 1),
      Request(QueryA, FALSE, <<arxiv \o <<COMMA>> \o pubmed>>, DEFAULT_NUM_RESULTS),
      Request(QueryA, FALSE, <<<<98, COLON>> \o arxiv>>, DEFAULT_NUM_RESULTS),
      Request(QueryA, FALSE, <<semantic, <<120>>, scholar>>, DEFAULT_NUM_RESULTS) }

(* ------------------------------ state ---------------------------------- *)
VARIABLES
    backend,    \* redis_client: "none" (not configured), "reliable", "flaky"
    cache,      \* the entries of the Redis server
    now,        \* the clock, in seconds
    ticks,      \* times the clock advanced
    faults,     \* faults injected so far
    calls       \* the requests, by arrival number

vars == <<backend, cache, now, ticks, faults, calls>>

Calls == 1..MaxCalls

CACHE_TTL == 86400

\* A request not yet received.
IdleCall ==
    [pc |-> "idle", query |-> <<>>, sources_none |-> FALSE, sources |-> <<>>,
     num_results |-> 0, cache_key |-> md5_hexdigest(<<>>), results |-> NoResults,
     idx |-> 0,
     \* history of the call, read by the properties only
     after |-> {}, hit |-> FALSE, saw |-> 0, lookup_at |-> 0, cache_fault |-> FALSE,
     invoked |-> {}, limit |-> 0, outcome |-> <<>>, stored |-> FALSE, stored_at |-> 0]

Init ==
    /\ backend \in {"none", "reliable", "flaky"}
    /\ cache = {}
    /\ now = 0
    /\ ticks = 0
    /\ faults = 0
    /\ calls = [c \in Calls |-> IdleCall]

Finished(c) == calls[c].pc \in {"done", "failed"}

\* 'name' in sources, for the adapter at position a.
Selected(sources, a) == In(DispatchOrder[a], sources)

\* The next adapter after position a whose `if name in sources` holds;
\* NumAdapters + 1 when there is none.
NextSelected(sources, a) ==
    IF \E b \in (a + 1)..NumAdapters : Selected(sources, b)
    THEN CHOOSE b \in (a + 1)..NumAdapters :
            /\ Selected(sources, b)
            /\ \A b2 \in (a + 1)..(b - 1) : ~Selected(sources, b2)
    ELSE NumAdapters + 1

(* ------------------------------ Redis ---------------------------------- *)
HasEntry(store, key, t) == \E e \in store : e.key = key /\ t < e.expires

EntryOf(store, key) == CHOOSE e \in store : e.key = key

\* redis_client.get(key): the value, or None ([found |-> FALSE]) when the key
\* is absent or expired.
redis_get(store, key, t) ==
    IF HasEntry(store, key, t)
    THEN [found |-> TRUE, value |-> EntryOf(store, key).value]
    ELSE [found |-> FALSE, value |-> <<>>]

\* redis_client.setex(key, ttl, value) by call c.
redis_setex(store, key, ttl, value, t, c) ==
    {e \in store : e.key # key}
    \cup {[key |-> key, value |-> value, expires |-> t + ttl, writer |-> c]}

\* Values a damaged entry can hold: the empty string and a truncated text.
CorruptValues == {<<>>, <<1>>}

(* ------------------------------ search_all_sources --------------------- *)
\* A lookup that stamps the envelope it returns with the time of the hit.
Lookup_RefreshesTimestamp(client, store, key, t, get_raises) ==
    IF client = "none" \/ get_raises THEN [hit |-> FALSE, value |-> NoResults]
    ELSE LET cached == redis_get(store, key, t)
         IN IF cached.found /\ cached.value # <<>> /\ json_loads(cached.value).ok
            THEN [hit |-> TRUE,
                  value |-> [json_loads(cached.value).val EXCEPT !.timestamp = t]]
            ELSE [hit |-> FALSE, value |-> NoResults]

\* A lookup that returns whatever json.loads makes of a non-empty value,
\* with no guard around it.
Lookup_TrustsValue(client, store, key, t, get_raises) ==
    IF client = "none" \/ get_raises THEN [hit |-> FALSE, value |-> NoResults]
    ELSE LET cached == redis_get(store, key, t)
         IN IF cached.found /\ cached.value # <<>>
            THEN [hit |-> TRUE, value |-> json_loads(cached.value).val]
            ELSE [hit |-> FALSE, value |-> NoResults]

\* The outcome of the lookup block: `if redis_client:` / get / `if cached:` /
\* json.loads, under a bare except.  get_raises: redis_client.get raised.
Lookup(client, store, key, t, get_raises) ==
    IF client = "none" \/ get_raises THEN [hit |-> FALSE, value |-> NoResults]
    ELSE LET cached == redis_get(store, key, t)
         IN IF cached.found /\ cached.value # <<>> /\ json_loads(cached.value).ok
            THEN [hit |-> TRUE, value |-> json_loads(cached.value).val]
            ELSE [hit |-> FALSE, value |-> NoResults]

\* The store block: `if redis_client:` / setex(cache_key, 86400, dumps) under
\* a bare except.  set_raises: redis_client.setex raised.
Store(client, store, key, results, t, c, set_raises) ==
    IF client = "none" \/ set_raises THEN store
    ELSE redis_setex(store, key, CACHE_TTL, json_dumps(results), t, c)

\* An except clause that only logs: the slot of a failed adapter stays unset.
AwaitInto_NoSlotOnRaise(results, name, r) ==
    IF ~r.raised
    THEN [results EXCEPT !.sources = DictSet(@, name, r.value),
                         !.total_results = @ + Len(r.value)]
    ELSE results

\* A total that is assigned, not accumulated.
AwaitInto_TotalAssigned(results, name, r) ==
    IF ~r.raised
    THEN [results EXCEPT !.sources = DictSet(@, name, r.value),
                         !.total_results = Len(r.value)]
    ELSE [results EXCEPT !.sources = DictSet(@, name, <<>>)]

\* The try/except around one await: the slot gets the adapter's result and the
\* total grows by its length, or the slot gets [] when the await raised.
AwaitInto(results, name, r) ==
    IF ~r.raised
    THEN [results EXCEPT !.sources = DictSet(@, name, r.value),
                         !.total_results = @ + Len(r.value)]
    ELSE [results EXCEPT !.sources = DictSet(@, name, <<>>)]

\* `except Exception` catches what an adapter raises.
ExceptCatches(r) == r.raised

\* Call c as it leaves search_all_sources through the store block and
\* search_endpoint returns its envelope.
Returning(me, client, set_raises, t) ==
    [me EXCEPT !.pc = "done",
               !.stored = client # "none" /\ ~set_raises,
               !.stored_at = t,
               !.cache_fault = @ \/ set_raises]

\* Call c as it suspends in `await` on the adapter at position a, which starts
\* running with the limit search_all_sources passes it.
Awaiting(me, a) ==
    [me EXCEPT !.pc = "running",
               !.idx = a,
               !.invoked = @ \cup {a},
               !.limit = LimitPassed(me.num_results)]

\* Whether the lookup met a failure of the cache: get raised, or the value
\* found is empty or no JSON text of an envelope.
LookupFault(client, store, key, t, get_raises) ==
    \/ get_raises
    \/ /\ client # "none"
       /\ redis_get(store, key, t).found
       /\ \/ redis_get(store, key, t).value = <<>>
          \/ ~json_loads(redis_get(store, key, t).value).ok

\* Whether a fault may be injected: `wanted` faults in this step.
WithinBudget(wanted) == faults + wanted <= MaxFaults

Count(b) == IF b THEN 1 ELSE 0

\* POST /search arrives.  search_endpoint calls search_all_sources(request.query,
\* request.sources), which runs without suspending up to its first await: the
\* default sources, the key, the cache lookup and, on a miss, the new envelope
\* and the start of the first selected adapter.  With no adapter selected it
\* runs to its end.
SearchEndpoint(c, request, get_raises, set_raises) ==
    /\ calls[c].pc = "idle"
    /\ IF c = 1 THEN TRUE ELSE calls[c - 1].pc # "idle"
    /\ (get_raises \/ set_raises) => backend = "flaky"
    /\ WithinBudget(Count(get_raises) + Count(set_raises))
    /\ LET sources == IF request.sources_none THEN DefaultSources ELSE request.sources
           key == cache_key_of(request.query, sources)
           got == Lookup(backend, cache, key, now, get_raises)
           first == NextSelected(sources, 0)
           me == [calls[c] EXCEPT
                    !.cache_fault = LookupFault(backend, cache, key, now, get_raises),
                    !.query = request.query,
                    !.sources_none = request.sources_none,
                    !.sources = sources,
                    !.num_results = request.num_results,
                    !.cache_key = key,
                    !.after = {d \in Calls : Finished(d)},
                    !.saw = IF \E e \in cache : e.key = key
                            THEN EntryOf(cache, key).writer ELSE 0,
                    !.lookup_at = now]
           miss == [me EXCEPT !.results = NewResults(request.query, now)]
       IN IF got.hit
          THEN /\ ~set_raises
               /\ calls' = [calls EXCEPT ![c] =
                        [me EXCEPT !.pc = "done", !.results = got.value, !.hit = TRUE]]
               /\ cache' = cache
          ELSE IF first <= NumAdapters
          THEN /\ ~set_raises
               /\ calls' = [calls EXCEPT ![c] = Awaiting(miss, first)]
               /\ cache' = cache
          ELSE /\ calls' = [calls EXCEPT ![c] = Returning(miss, backend, set_raises, now)]
               /\ cache' = Store(backend, cache, key, miss.results, now, c, set_raises)
    /\ faults' = faults + Count(get_raises) + Count(set_raises)
    /\ UNCHANGED <<backend, now, ticks>>

\* The adapter call c awaits ends with outcome o.  search_all_sources resumes:
\* it fills the slot, then starts the next selected adapter and suspends
\* again, or stores the envelope and returns.
FinishAdapter(c, o, set_raises) ==
    /\ calls[c].pc = "running"
    /\ o \in Outcomes(calls[c].idx, calls[c].query, calls[c].limit)
    /\ set_raises => backend = "flaky"
    /\ WithinBudget(Count(IsFault(o)) + Count(set_raises))
    /\ LET me == calls[c]
           r == CallAdapter(me.idx, me.query, me.limit, o)
           next == NextSelected(me.sources, me.idx)
           resumed == [me EXCEPT
                    !.results = AwaitInto(@, DispatchOrder[me.idx], r),
                    !.outcome = Append(@, [a |-> me.idx, o |-> o])]
       IN IF r.raised /\ ~ExceptCatches(r)
          THEN /\ ~set_raises
               /\ calls' = [calls EXCEPT ![c] =
                        [me EXCEPT !.pc = "failed",
                                   !.outcome = Append(@, [a |-> me.idx, o |-> o])]]
               /\ cache' = cache
          ELSE IF next <= NumAdapters
          THEN /\ ~set_raises
               /\ calls' = [calls EXCEPT ![c] = Awaiting(resumed, next)]
               /\ cache' = cache
          ELSE /\ calls' = [calls EXCEPT ![c] = Returning(resumed, backend, set_raises, now)]
               /\ cache' = Store(backend, cache, me.cache_key, resumed.results, now, c,
                                 set_raises)
    /\ faults' = faults + Count(IsFault(o)) + Count(set_raises)
    /\ UNCHANGED <<backend, now, ticks>>

(* ------------------------------ environment ---------------------------- *)
\* A flaky backend damages a stored value.
Corrupt(e, v) ==
    /\ backend = "flaky"
    /\ WithinBudget(1)
    /\ e \in cache
    /\ e.value # v
    /\ cache' = (cache \ {e}) \cup {[e EXCEPT !.value = v]}
    /\ faults' = faults + 1
    /\ UNCHANGED <<backend, now, ticks, calls>>

\* Time passes: a second, or a whole TTL.
Tick(d) ==
    /\ ticks < MaxTicks
    /\ now' = now + d
    /\ ticks' = ticks + 1
    /\ UNCHANGED <<backend, cache, faults, calls>>

Next ==
    \/ \E c \in Calls, request \in Requests, get_raises \in BOOLEAN, set_raises \in BOOLEAN :
            SearchEndpoint(c, request, get_raises, set_raises)
    \/ \E c \in Calls, set_raises \in BOOLEAN :
            \E o \in Outcomes(calls[c].idx, calls[c].query, calls[c].limit) :
                FinishAdapter(c, o, set_raises)
    \/ \E e \in cache, v \in CorruptValues : Corrupt(e, v)
    \/ \E d \in {1, CACHE_TTL} : Tick(d)

Spec == Init /\ [][Next]_vars

(* ------------------------------ properties ----------------------------- *)
Arrived(c) == calls[c].pc # "idle"

Done(c) == calls[c].pc = "done"

\* A call that returned an envelope it computed.
Computed(c) == Done(c) /\ ~calls[c].hit

\* The source list of call c's request, with the default for None.
RequestList(c) == IF calls[c].sources_none THEN DefaultSources ELSE calls[c].sources

\* The known names call c's request selects: all five when it names none.
Requested(c) ==
    IF calls[c].sources_none THEN KnownNames
    ELSE {calls[c].sources[i] : i \in 1..Len(calls[c].sources)} \cap KnownNames

Occurrences(x, l) == Cardinality({i \in 1..Len(l) : l[i] = x})

\* l1 is a reordering of l2.
IsPermutation(l1, l2) ==
    /\ Len(l1) = Len(l2)
    /\ \A i \in 1..Len(l1) : Occurrences(l1[i], l1) = Occurrences(l1[i], l2)

RECURSIVE SumOfLengths(_)
SumOfLengths(d) ==
    IF d = <<>> THEN 0 ELSE Len(Head(d).records) + SumOfLengths(Tail(d))

\* The outcomes recorded for call c, as (adapter position, outcome) pairs.
OutcomesOf(c) == {calls[c].outcome[k] : k \in 1..Len(calls[c].outcome)}

SlotOf(c, a) == Slot(calls[c].results.sources, DispatchOrder[a])

HasSlot(c, a) == DispatchOrder[a] \in DictKeys(calls[c].results.sources)

\* The items 1..n in order.
UpTo(n) == [i \in 1..n |-> i]

\* The items 1..n in order, without item k (1 <= k <= n).
Without(n, k) == [i \in 1..(n - 1) |-> IF i < k THEN i ELSE i + 1]

\* Call c2 arrived after call c1 had returned an envelope it computed and
\* stored, with the same query, before the entry c1 stored expired.
Repeats(c1, c2) ==
    /\ c1 # c2
    /\ backend = "reliable"
    /\ Computed(c1) /\ calls[c1].stored
    /\ Arrived(c2) /\ c1 \in calls[c2].after
    /\ calls[c2].query = calls[c1].query
    /\ calls[c2].lookup_at < calls[c1].stored_at + CACHE_TTL

\* The second call was answered from the cache with the first call's envelope.
AnsweredFromFirst(c1, c2) ==
    /\ Done(c2) /\ calls[c2].hit
    /\ calls[c2].invoked = {}
    /\ calls[c2].results = calls[c1].results

(* C1.  Within one request the selected adapters are not serialized: no        *)
(* selected adapter's start waits for another adapter's completion, so while   *)
(* the call is suspended on one adapter every adapter it selected has been     *)
(* started.                                                                    *)
C1_NoStartWaitsForCompletion ==
    \A c \in Calls :
        calls[c].pc = "running" =>
            \A a \in 1..NumAdapters :
                DispatchOrder[a] \in Requested(c) => a \in calls[c].invoked

C3_AtMostNumResults ==
    \A c \in Calls :
        Done(c) =>
            \A i \in 1..Len(calls[c].results.sources) :
                Len(calls[c].results.sources[i].records) <= calls[c].num_results

(* C4.  An exception that escapes an adapter is caught by search_all_sources:  *)
(* the call does not fail, the adapter's slot is the empty sequence, and in    *)
(* the envelope returned every other selected adapter has run and an adapter   *)
(* that met no fault has all its records.                                      *)
C4_EscapeIsIsolated ==
    \A c \in Calls :
        /\ calls[c].pc # "failed"
        /\ \A x \in OutcomesOf(c) :
            x.o.kind = "escape" => HasSlot(c, x.a) /\ SlotOf(c, x.a) = <<>>
        /\ Computed(c) =>
            /\ \A a \in 1..NumAdapters :
                DispatchOrder[a] \in Requested(c) =>
                    /\ a \in calls[c].invoked
                    /\ \E x \in OutcomesOf(c) : x.a = a
            /\ \A x \in OutcomesOf(c) :
                x.o.kind = "ok" =>
                    /\ HasSlot(c, x.a)
                    /\ SlotOf(c, x.a)
                        = UpTo(Min(Corpus(x.a, calls[c].query), calls[c].limit))

C4_Witness ==
    \E c \in Calls :
        /\ Computed(c)
        /\ \E x, y \in OutcomesOf(c) :
            /\ x.o.kind = "escape" /\ y.o.kind = "ok"
            /\ x.a < y.a
            /\ SlotOf(c, x.a) = <<>>
            /\ SlotOf(c, y.a) # <<>>

C6_TotalIsSumOfLengths ==
    \A c \in Calls :
        Done(c) =>
            calls[c].results.total_results = SumOfLengths(calls[c].results.sources)

C6_Witness ==
    \E c \in Calls :
        /\ Computed(c)
        /\ \E x, y, z \in OutcomesOf(c) :
            /\ x.a # y.a
            /\ SlotOf(c, x.a) # <<>> /\ SlotOf(c, y.a) # <<>>
            /\ z.o.kind = "escape"
        /\ calls[c].results.total_results >= 3

(* C7.  The sources mapping of a computed envelope has exactly the requested   *)
(* known names as its keys; an unspecified list selects all five.              *)
C7_KeysAreRequestedKnownNames ==
    \A c \in Calls :
        Computed(c) => DictKeys(calls[c].results.sources) = Requested(c)

C7_Witness ==
    \E c1, c2 \in Calls :
        /\ Computed(c1) /\ calls[c1].sources_none
        /\ DictKeys(calls[c1].results.sources) = KnownNames
        /\ Computed(c2) /\ ~calls[c2].sources_none
        /\ \E i \in 1..Len(calls[c2].sources) : calls[c2].sources[i] \notin KnownNames
        /\ \E x \in OutcomesOf(c2) : x.o.kind # "ok"
        /\ Cardinality(DictKeys(calls[c2].results.sources)) = 2

\* The adapters call c selected have all been invoked and the envelope is the
\* one computed for this request at its arrival.
FreshlyComputed(c) ==
    /\ calls[c].invoked = {a \in 1..NumAdapters : DispatchOrder[a] \in Requested(c)}
    /\ calls[c].results.query = calls[c].query
    /\ calls[c].results.timestamp = calls[c].lookup_at
    /\ DictKeys(calls[c].results.sources) = Requested(c)

(* C8.  The cache is best-effort: no call fails; with no backend no call is    *)
(* answered from the cache and nothing is stored; a call whose lookup raised   *)
(* or found an undeserializable value, or whose key was absent, is a miss; and *)
(* every miss, also one whose store raised, returns the freshly computed       *)
(* envelope.                                                                   *)
C8_CacheIsBestEffort ==
    /\ backend = "none" => cache = {}
    /\ \A c \in Calls :
        /\ calls[c].pc # "failed"
        /\ backend = "none" => ~calls[c].hit /\ ~calls[c].stored
        /\ calls[c].cache_fault /\ Arrived(c) => ~calls[c].hit
        /\ calls[c].saw = 0 /\ Arrived(c) => ~calls[c].hit
        /\ Computed(c) => FreshlyComputed(c)

C8_Witness ==
    \E c1, c2 \in Calls :
        /\ c1 \in calls[c2].after
        /\ calls[c2].cache_key = calls[c1].cache_key
        /\ calls[c1].stored
        /\ calls[c2].cache_fault /\ calls[c2].saw = c1
        /\ Computed(c2) /\ ~calls[c2].stored
        /\ calls[c2].results.total_results > 0

(* C9.  The cache key does not depend on the order of the source list: two     *)
(* requests with the same query whose lists are reorderings of one another get *)
(* the same key, and the later one finds the entry the earlier one stored.     *)
C9_KeyIgnoresOrder ==
    \A c1, c2 \in Calls :
        (/\ Arrived(c1) /\ Arrived(c2)
         /\ calls[c1].query = calls[c2].query
         /\ IsPermutation(RequestList(c1), RequestList(c2)))
        => /\ calls[c1].cache_key = calls[c2].cache_key
           /\ (calls[c1].stored /\ c1 \in calls[c2].after) => calls[c2].saw # 0

C9_Witness ==
    \E c1, c2 \in Calls :
        /\ calls[c1].query = calls[c2].query
        /\ IsPermutation(RequestList(c1), RequestList(c2))
        /\ RequestList(c1) # RequestList(c2)
        /\ calls[c1].stored /\ c1 \in calls[c2].after
        /\ calls[c2].hit /\ calls[c2].saw = c1

(* C10.  A cache hit never returns an envelope computed for another request:   *)
(* the envelope's query is the request's query and its sources keys are the    *)
(* known names the request selected.                                           *)
C10_HitMatchesRequest ==
    \A c \in Calls :
        calls[c].hit =>
            /\ calls[c].results.query = calls[c].query
            /\ DictKeys(calls[c].results.sources) = Requested(c)

====
